---- MODULE Spec2Model ----
(***************************************************************************)
(* bvh_skeleton_probe.py: read_bvh_header, parse_hierarchy, print_tree,    *)
(* suggest_map and the report lines of main, as state machines.            *)
(*                                                                         *)
(* Text is kept as text: a line, a joint name and a numeric field are      *)
(* strings, and the regular expressions, str.startswith, "in", str.lower   *)
(* and float() are computed character by character.                        *)
(***************************************************************************)
EXTENDS Integers, Sequences, FiniteSets, TLC

VARIABLES
    pc,            \* position of the run
    lines,         \* read_bvh_header: the file's lines read so far
    in_hier, in_motion, header_lines, motion_lines, fps,
    children, offsets, order, stack, current, root_name,   \* parse_hierarchy
    frames, printed,                                       \* print_tree
    name_map,                                              \* suggest_map
    report                                                 \* lines printed by main

vars == <<pc, lines, in_hier, in_motion, header_lines, motion_lines, fps,
          children, offsets, order, stack, current, root_name,
          frames, printed, name_map, report>>

(***************************************************************************)
(* Bounds of the model.                                                    *)
(***************************************************************************)
MaxLines == 3          \* header lines of an arbitrary (possibly ill-formed) header
MaxWFLines == 10       \* header lines of a well-formed hierarchy block
MaxFileLines == 4      \* file lines seen by read_bvh_header
MaxOrder == 3          \* joint names handed to suggest_map

\* Python's None
None == "<None>"

(***************************************************************************)
(* Strings.                                                                *)
(***************************************************************************)
Ch(s, k) == SubSeq(s, k, k)
From(s, k) == SubSeq(s, k, Len(s))

\* str.startswith
StartsWith(s, p) == Len(s) >= Len(p) /\ SubSeq(s, 1, Len(p)) = p

\* "sub in s" on strings
Contains(s, sub) ==
    \E k \in 0..(Len(s) - Len(sub)) : SubSeq(s, k + 1, k + Len(sub)) = sub

\* "x in list"
InList(x, list) == \E k \in 1..Len(list) : list[k] = x

UpperChars == "ABCDEFGHIJKLMNOPQRSTUVWXYZ"
LowerChars == "abcdefghijklmnopqrstuvwxyz"
DigitChars == "0123456789"

IsDigit(c) == Contains(DigitChars, c)
IsAlpha(c) == Contains(UpperChars, c) \/ Contains(LowerChars, c)
IsSpace(c) == c = " "

\* str.lower, one character
LowerChar(c) ==
    IF Contains(UpperChars, c)
    THEN Ch(LowerChars, CHOOSE k \in 1..Len(UpperChars) : Ch(UpperChars, k) = c)
    ELSE c

RECURSIVE Lower(_)
Lower(s) == IF s = "" THEN "" ELSE LowerChar(Ch(s, 1)) \o Lower(From(s, 2))

\* the character classes of the three regular expressions
NameClass(c) == IsAlpha(c) \/ IsDigit(c) \/ c \in {"_", "-", "."}
OffsetClass(c) == IsDigit(c) \/ c \in {".", "-", "e", "E"}
FrameClass(c) == IsDigit(c) \/ c \in {".", "e", "E", "+", "-"}

\* number of leading characters of s that are white space: \s*
RECURSIVE SpaceRun(_)
SpaceRun(s) == IF s # "" /\ IsSpace(Ch(s, 1)) THEN 1 + SpaceRun(From(s, 2)) ELSE 0

\* number of leading characters of s in a class: the greedy [...]+
RECURSIVE NameRun(_)
NameRun(s) == IF s # "" /\ NameClass(Ch(s, 1)) THEN 1 + NameRun(From(s, 2)) ELSE 0

RECURSIVE OffsetRun(_)
OffsetRun(s) == IF s # "" /\ OffsetClass(Ch(s, 1)) THEN 1 + OffsetRun(From(s, 2)) ELSE 0

RECURSIVE FrameRun(_)
FrameRun(s) == IF s # "" /\ FrameClass(Ch(s, 1)) THEN 1 + FrameRun(From(s, 2)) ELSE 0

\* str.strip on the left (startswith after strip only looks at the left end)
Strip(s) == From(s, SpaceRun(s) + 1)

(***************************************************************************)
(* float(): the strings the regular expressions can capture are made of    *)
(* digits, ".", "e", "E", "+", "-".  A float is [sign] mantissa [exponent] *)
(* with mantissa digits[.digits] or .digits and exponent e[sign]digits.    *)
(* The value is kept exactly, as a fraction <<numerator, denominator>>.    *)
(***************************************************************************)
RECURSIVE AllDigits(_)
AllDigits(s) == s = "" \/ (IsDigit(Ch(s, 1)) /\ AllDigits(From(s, 2)))

DigitVal(c) == (CHOOSE k \in 1..10 : Ch(DigitChars, k) = c) - 1

RECURSIVE DigitsVal(_)
DigitsVal(s) ==
    IF s = "" THEN 0
    ELSE 10 * DigitsVal(SubSeq(s, 1, Len(s) - 1)) + DigitVal(Ch(s, Len(s)))

RECURSIVE Pow10(_)
Pow10(n) == IF n <= 0 THEN 1 ELSE 10 * Pow10(n - 1)

\* position of the first character of s that is in set cs, 0 if none
RECURSIVE FindChar(_, _)
FindChar(s, cs) ==
    IF s = "" THEN 0
    ELSE IF Ch(s, 1) \in cs THEN 1
    ELSE LET r == FindChar(From(s, 2), cs) IN IF r = 0 THEN 0 ELSE r + 1

HasSign(s) == s # "" /\ Ch(s, 1) \in {"+", "-"}
Unsigned(s) == IF HasSign(s) THEN From(s, 2) ELSE s

FloatParts(s) ==
    LET body == Unsigned(s)
        epos == FindChar(body, {"e", "E"})
        mant == IF epos = 0 THEN body ELSE SubSeq(body, 1, epos - 1)
        expo == IF epos = 0 THEN "" ELSE From(body, epos + 1)
        dpos == FindChar(mant, {"."})
    IN  [neg |-> HasSign(s) /\ Ch(s, 1) = "-",
         ip |-> IF dpos = 0 THEN mant ELSE SubSeq(mant, 1, dpos - 1),
         fp |-> IF dpos = 0 THEN "" ELSE From(mant, dpos + 1),
         hasExp |-> epos # 0,
         eneg |-> HasSign(expo) /\ Ch(expo, 1) = "-",
         ed |-> Unsigned(expo)]

\* float(s) does not raise ValueError
FloatValid(s) ==
    LET p == FloatParts(s)
    IN  /\ AllDigits(p.ip) /\ AllDigits(p.fp)
        /\ Len(p.ip) + Len(p.fp) >= 1
        /\ p.hasExp => (p.ed # "" /\ AllDigits(p.ed))

RECURSIVE Gcd(_, _)
Gcd(a, b) == IF b = 0 THEN a ELSE Gcd(b, a % b)

Frac(n, d) ==
    LET g == Gcd(IF n < 0 THEN -n ELSE n, d)
    IN  IF n = 0 THEN <<0, 1>> ELSE <<n \div g, d \div g>>

\* float(s) for a valid s.  The strings of this model are short: the value
\* is exact and far from the ends of the double range.
FloatValue(s) ==
    LET p == FloatParts(s)
        m == DigitsVal(p.ip \o p.fp)
        e == (IF p.eneg THEN -DigitsVal(p.ed) ELSE DigitsVal(p.ed)) - Len(p.fp)
        sm == IF p.neg THEN -m ELSE m
    IN  IF e >= 0 THEN Frac(sm * Pow10(e), 1) ELSE Frac(sm, Pow10(-e))

\* round(x) of Python 3 for x = n/d > 0: to nearest, ties to even
Round(n, d) ==
    LET q == n \div d
        r == n % d
    IN  IF 2 * r < d THEN q
        ELSE IF 2 * r > d THEN q + 1
        ELSE IF q % 2 = 0 THEN q ELSE q + 1

(***************************************************************************)
(* read_bvh_header                                                         *)
(***************************************************************************)
\* the lines a file is made of in this model
FileLineSet ==
    {"HIERARCHY", "MOTION", "ROOT Hips",
     "Frame Time: 0.0083333", "Frame Time: 0.0333333", "Frame Time: 5",
     "Frame Time: 2", "Frame Time: 0", "Frame Time: .", "Frame Time: x"}

\* absent frame rate (fps = None); a frame rate n is <<n>>
NoFps == <<>>

\* re.search(r"Frame Time:\s*([0-9\.eE+-]+)", ln): group 1 of the leftmost
\* match, "" when there is no match
FrameTimeAt(ln, k) ==
    LET tail == From(ln, k)
        rest == From(tail, Len("Frame Time:") + 1)
        val == From(rest, SpaceRun(rest) + 1)
    IN  IF StartsWith(tail, "Frame Time:")
        THEN SubSeq(val, 1, FrameRun(val))
        ELSE ""

FrameTimeMatch(ln) ==
    LET hits == {k \in 1..Len(ln) : FrameTimeAt(ln, k) # ""}
    IN  IF hits = {} THEN ""
        ELSE FrameTimeAt(ln, CHOOSE k \in hits : \A j \in hits : k <= j)

\* lines 69-70: fps of a duration dt = <<n, d>>
FpsOf(dt) == IF dt[1] > 0 THEN <<Round(dt[2], dt[1])>> ELSE NoFps

\* lines 64-71: the scan of motion_lines, stopped by the first match
RECURSIVE FpsScan(_)
FpsScan(mls) ==
    IF mls = <<>> THEN [raised |-> FALSE, fps |-> NoFps]
    ELSE LET m == FrameTimeMatch(Head(mls))
         IN  IF m = "" THEN FpsScan(Tail(mls))
             ELSE IF ~FloatValid(m) THEN [raised |-> TRUE, fps |-> NoFps]
             ELSE [raised |-> FALSE, fps |-> FpsOf(FloatValue(m))]

\* the routing that asks for the hierarchy block first
Route_HierFirst(inm, inh) == IF inh THEN "header" ELSE IF inm THEN "motion" ELSE ""

\* lines 58-61: the buffer a line goes to
Route(inm, inh) == IF inm THEN "motion" ELSE IF inh THEN "header" ELSE ""

\* lines 51-61: one iteration of the routing loop
ReadLine(ln) ==
    /\ pc = "read"
    /\ Len(lines) < MaxFileLines
    /\ lines' = Append(lines, ln)
    /\ IF StartsWith(Strip(ln), "HIERARCHY")
       THEN /\ in_hier' = TRUE
            /\ UNCHANGED <<in_motion, header_lines, motion_lines>>
       ELSE LET mot == StartsWith(Strip(ln), "MOTION")
                inm == in_motion \/ mot
                inh == in_hier /\ ~mot
            IN  /\ in_motion' = inm
                /\ in_hier' = inh
                /\ motion_lines' = IF Route(inm, inh) = "motion"
                                   THEN Append(motion_lines, ln) ELSE motion_lines
                /\ header_lines' = IF Route(inm, inh) = "header"
                                   THEN Append(header_lines, ln) ELSE header_lines
    /\ UNCHANGED <<pc, fps, children, offsets, order, stack, current, root_name,
                   frames, printed, name_map, report>>

\* the routing loop is over: the file has no more lines
ReadEnd ==
    /\ pc = "read"
    /\ pc' = "scan"
    /\ UNCHANGED <<lines, in_hier, in_motion, header_lines, motion_lines, fps,
                   children, offsets, order, stack, current, root_name,
                   frames, printed, name_map, report>>

\* lines 64-72: parse fps from the motion block and return
ScanFps ==
    /\ pc = "scan"
    /\ LET r == FpsScan(motion_lines)
       IN  IF r.raised
           THEN pc' = "ValueError" /\ fps' = fps
           ELSE pc' = "header_returned" /\ fps' = r.fps
    /\ UNCHANGED <<lines, in_hier, in_motion, header_lines, motion_lines,
                   children, offsets, order, stack, current, root_name,
                   frames, printed, name_map, report>>

\* line 202: print(f"FPS   : {fps if fps else 'unknown'}")
FpsText(f) == IF f # NoFps /\ f[1] # 0 THEN ToString(f[1]) ELSE "unknown"

ReportFps ==
    /\ pc = "header_returned"
    /\ report' = Append(report, "FPS   : " \o FpsText(fps))
    /\ pc' = "fps_reported"
    /\ UNCHANGED <<lines, in_hier, in_motion, header_lines, motion_lines, fps,
                   children, offsets, order, stack, current, root_name,
                   frames, printed, name_map>>

(***************************************************************************)
(* Python dicts, kept as sequences of <<key, value>> in insertion order.   *)
(***************************************************************************)
DictHas(d, k) == \E j \in 1..Len(d) : d[j][1] = k
DictGet(d, k) == d[CHOOSE j \in 1..Len(d) : d[j][1] = k][2]
DictSet(d, k, v) ==
    IF DictHas(d, k)
    THEN [j \in 1..Len(d) |-> IF d[j][1] = k THEN <<k, v>> ELSE d[j]]
    ELSE Append(d, <<k, v>>)

(***************************************************************************)
(* parse_hierarchy                                                         *)
(***************************************************************************)
\* the header lines of this model
HeaderLineSet ==
    {"ROOT Hips", "ROOT Spine", "JOINT Hips", "JOINT Spine", "JOINT Head",
     "End Site", "{", "}",
     "OFFSET 0 1.5 -2", "OFFSET 3 0 0", "OFFSET 1.2.3 0 0", "OFFSET x 0 0",
     "CHANNELS 3"}

\* re_joint.match(ln): group 2 (the name), "" when there is no match
re_joint(ln) ==
    LET s == Strip(ln)
        kw == IF StartsWith(s, "ROOT") THEN "ROOT"
              ELSE IF StartsWith(s, "JOINT") THEN "JOINT" ELSE ""
        rest == From(s, Len(kw) + 1)
        nm == From(rest, SpaceRun(rest) + 1)
    IN  IF kw # "" /\ SpaceRun(rest) >= 1 THEN SubSeq(nm, 1, NameRun(nm)) ELSE ""

\* re_end.match(ln)
re_end(ln) == StartsWith(Strip(ln), "End Site")

\* one "\s+([0-9\.\-eE]+)" of re_offset at the head of s: <<group, rest>>,
\* <<>> when it does not match
OffsetField(s) ==
    LET t == From(s, SpaceRun(s) + 1)
    IN  IF SpaceRun(s) >= 1 /\ OffsetRun(t) >= 1
        THEN <<SubSeq(t, 1, OffsetRun(t)), From(t, OffsetRun(t) + 1)>>
        ELSE <<>>

\* re_offset.match(ln): the three groups, <<>> when there is no match
re_offset(ln) ==
    LET s == Strip(ln)
        f1 == OffsetField(From(s, Len("OFFSET") + 1))
        f2 == OffsetField(f1[2])
        f3 == OffsetField(f2[2])
    IN  IF StartsWith(s, "OFFSET") /\ f1 # <<>> /\ f2 # <<>> /\ f3 # <<>>
        THEN <<f1[1], f2[1], f3[1]>>
        ELSE <<>>

\* what lines 93, 104, 107, 109 and 114 find in each line of the model,
\* computed once per line
Matches ==
    [ln \in HeaderLineSet |->
        [joint |-> re_joint(ln), end |-> re_end(ln),
         open |-> Contains(ln, "{"), close |-> Contains(ln, "}"),
         offset |-> re_offset(ln)]]

\* the bottom of the stack taken for its top
TopOf_Bottom(st) == IF st # <<>> THEN st[1] ELSE None

\* line 112: stack[-1] if stack else None
TopOf(st) == IF st # <<>> THEN st[Len(st)] ELSE None

\* lines 92-116: one iteration of the loop over header_lines.  The lines are
\* chosen as the loop goes; header_lines holds the ones processed so far.
ParseStep(ln) ==
    /\ header_lines' = Append(header_lines, ln)
    /\ IF Matches[ln].joint # ""
       THEN LET name == Matches[ln].joint
            IN  /\ order' = Append(order, name)
                /\ IF current # None
                   THEN /\ children' =
                              DictSet(children, current,
                                      Append(IF DictHas(children, current)
                                             THEN DictGet(children, current)
                                             ELSE <<>>, name))
                        /\ root_name' = root_name
                   ELSE /\ root_name' = name
                        /\ children' = children
                /\ stack' = Append(stack, name)
                /\ current' = name
                /\ UNCHANGED <<offsets, pc>>
       ELSE IF Matches[ln].end
       THEN UNCHANGED <<order, children, root_name, stack, current, offsets, pc>>
       ELSE IF Matches[ln].open
       THEN UNCHANGED <<order, children, root_name, stack, current, offsets, pc>>
       ELSE IF Matches[ln].close
       THEN /\ IF stack # <<>>
               THEN /\ stack' = SubSeq(stack, 1, Len(stack) - 1)
                    /\ current' = TopOf(SubSeq(stack, 1, Len(stack) - 1))
               ELSE UNCHANGED <<stack, current>>
            /\ UNCHANGED <<order, children, root_name, offsets, pc>>
       ELSE LET mo == Matches[ln].offset
            IN  IF mo # <<>> /\ current # None
                THEN IF \A j \in 1..3 : FloatValid(mo[j])
                     THEN /\ offsets' = DictSet(offsets, current,
                                                [j \in 1..3 |-> FloatValue(mo[j])])
                          /\ UNCHANGED <<order, children, root_name, stack, current, pc>>
                     ELSE /\ pc' = "ValueError"
                          /\ UNCHANGED <<order, children, root_name, stack, current, offsets>>
                ELSE UNCHANGED <<order, children, root_name, stack, current, offsets, pc>>
    /\ UNCHANGED <<lines, in_hier, in_motion, motion_lines, fps,
                   frames, printed, name_map, report>>

\* line 118: the loop is over, parse_hierarchy returns
ParseReturn ==
    /\ pc = "parse"
    /\ pc' = "parsed"
    /\ UNCHANGED <<lines, in_hier, in_motion, header_lines, motion_lines, fps,
                   children, offsets, order, stack, current, root_name,
                   frames, printed, name_map, report>>

(***************************************************************************)
(* print_tree: frames is the call stack, one frame per active call with    *)
(* the position of its loop over children.get(root, []).                   *)
(***************************************************************************)
ChildrenOf(n) == IF DictHas(children, n) THEN DictGet(children, n) ELSE <<>>

TreeLine(level, n) == <<level, n>>

\* line 199: print_tree(root, children)
MainPrintTree ==
    /\ pc = "parsed"
    /\ frames' = <<[root |-> root_name, k |-> 1]>>
    /\ printed' = <<TreeLine(0, root_name)>>
    /\ pc' = "print_tree"
    /\ UNCHANGED <<lines, in_hier, in_motion, header_lines, motion_lines, fps,
                   children, offsets, order, stack, current, root_name,
                   name_map, report>>

TopFrame == frames[Len(frames)]

\* the depth at which the interpreter gives up a recursion (RecursionError);
\* no tree of this model is that deep unless it has a cycle
RecursionLimit == MaxWFLines

\* lines 123-124: the next child of the innermost call, a recursive call
PrintTreeCall ==
    /\ pc = "print_tree"
    /\ TopFrame.k <= Len(ChildrenOf(TopFrame.root))
    /\ Len(frames) < RecursionLimit
    /\ LET ch == ChildrenOf(TopFrame.root)[TopFrame.k]
       IN  /\ frames' = Append([frames EXCEPT ![Len(frames)].k = @ + 1],
                               [root |-> ch, k |-> 1])
           /\ printed' = Append(printed, TreeLine(Len(frames), ch))
    /\ UNCHANGED <<pc, lines, in_hier, in_motion, header_lines, motion_lines, fps,
                   children, offsets, order, stack, current, root_name,
                   name_map, report>>

\* the recursive call that exceeds the interpreter's recursion limit
PrintTreeOverflow ==
    /\ pc = "print_tree"
    /\ TopFrame.k <= Len(ChildrenOf(TopFrame.root))
    /\ Len(frames) >= RecursionLimit
    /\ pc' = "RecursionError"
    /\ UNCHANGED <<lines, in_hier, in_motion, header_lines, motion_lines, fps,
                   children, offsets, order, stack, current, root_name,
                   frames, printed, name_map, report>>

\* the loop of the innermost call is over: it returns
PrintTreeReturn ==
    /\ pc = "print_tree"
    /\ TopFrame.k > Len(ChildrenOf(TopFrame.root))
    /\ frames' = SubSeq(frames, 1, Len(frames) - 1)
    /\ pc' = IF Len(frames) = 1 THEN "tree_printed" ELSE pc
    /\ UNCHANGED <<lines, in_hier, in_motion, header_lines, motion_lines, fps,
                   children, offsets, order, stack, current, root_name,
                   printed, name_map, report>>

\* line 201: print(f"Joints: {len(order)}")
ReportJoints ==
    /\ pc = "tree_printed"
    /\ report' = Append(report, "Joints: " \o ToString(Len(order)))
    /\ pc' = "joints_reported"
    /\ UNCHANGED <<lines, in_hier, in_motion, header_lines, motion_lines, fps,
                   children, offsets, order, stack, current, root_name,
                   frames, printed, name_map>>

(***************************************************************************)
(* Well-formed hierarchy blocks: one ROOT line first, every ROOT, JOINT    *)
(* and End Site followed by its own "{" ... "}" block, joint names unique. *)
(* WFState reads a sequence of lines as that grammar does and keeps the    *)
(* blocks that are open, the declared names and each joint's enclosing     *)
(* joint; an End Site block is the entry "" of open.                       *)
(***************************************************************************)
WF0 == [ok |-> TRUE, open |-> <<>>, pend |-> None, seen |-> <<>>, par |-> <<>>,
        closed |-> FALSE]

IsRoot == [ln \in HeaderLineSet |-> StartsWith(Strip(ln), "ROOT")]
IsOffset == [ln \in HeaderLineSet |-> StartsWith(Strip(ln), "OFFSET")]

OffsetLineOk(ln) ==
    Matches[ln].offset # <<>> /\ \A j \in 1..3 : FloatValid(Matches[ln].offset[j])

WFStep(w, ln) ==
    LET top == IF w.open = <<>> THEN None ELSE w.open[Len(w.open)]
        inBlock == w.pend = None /\ w.open # <<>>
        inJoint == inBlock /\ top # ""
        name == Matches[ln].joint
        bad == [w EXCEPT !.ok = FALSE]
    IN  IF ~w.ok \/ w.closed THEN bad
        ELSE IF name # "" /\ IsRoot[ln]
        THEN IF w.seen = <<>> /\ w.pend = None
             THEN [w EXCEPT !.pend = name, !.seen = <<name>>, !.par = <<<<name, None>>>>]
             ELSE bad
        ELSE IF name # ""
        THEN IF inJoint /\ ~InList(name, w.seen)
             THEN [w EXCEPT !.pend = name, !.seen = Append(@, name),
                            !.par = Append(@, <<name, top>>)]
             ELSE bad
        ELSE IF Matches[ln].end
        THEN IF inJoint THEN [w EXCEPT !.pend = ""] ELSE bad
        ELSE IF ln = "{"
        THEN IF w.pend # None
             THEN [w EXCEPT !.open = Append(@, w.pend), !.pend = None]
             ELSE bad
        ELSE IF ln = "}"
        THEN IF inBlock
             THEN [w EXCEPT !.open = SubSeq(@, 1, Len(@) - 1),
                            !.closed = Len(w.open) = 1]
             ELSE bad
        ELSE IF IsOffset[ln]
        THEN IF inBlock /\ OffsetLineOk(ln) THEN w ELSE bad
        ELSE IF inJoint THEN w ELSE bad

RECURSIVE WFState(_)
WFState(ls) ==
    IF ls = <<>> THEN WF0
    ELSE CHOOSE r \in {WFStep(w, ls[Len(ls)]) :
                        w \in {WFState(SubSeq(ls, 1, Len(ls) - 1))}} : TRUE

WFPrefix(ls) == WFState(ls).ok
WellFormed(ls) == WFState(ls).ok /\ WFState(ls).closed

\* the lines of the well-formed blocks of this model
WFLineSet ==
    {"ROOT Hips", "JOINT Spine", "JOINT Head", "End Site", "{", "}",
     "OFFSET 0 1.5 -2", "OFFSET 3 0 0"}

\* the next header line: any line while the header is short, and any line
\* that keeps the header a prefix of a well-formed block beyond that
ParseLine(ln) ==
    /\ pc = "parse"
    /\ \/ Len(header_lines) < MaxLines
       \/ /\ Len(header_lines) < MaxWFLines
          /\ ln \in WFLineSet
          /\ WFPrefix(Append(header_lines, ln))
    /\ ParseStep(ln)

(***************************************************************************)
(* suggest_map                                                             *)
(***************************************************************************)
CANONICAL_GMR_SET ==
    <<"Hips", "Spine", "Spine1", "Spine2", "Neck", "Head",
      "LeftShoulder", "LeftArm", "LeftForeArm", "LeftHand",
      "RightShoulder", "RightArm", "RightForeArm", "RightHand",
      "LeftUpLeg", "LeftLeg", "LeftFoot", "LeftToe",
      "RightUpLeg", "RightLeg", "RightFoot", "RightToe">>

LEFT_PREFIXES == <<"Left", "L">>
RIGHT_PREFIXES == <<"Right", "R">>
TOE_HINTS == <<"ToeBase", "Toe", "toe", "toes">>

variants ==
    <<<<"LeftToeBase", "LeftToe">>, <<"RightToeBase", "RightToe">>,
      <<"LeftUpLegRoll", "LeftUpLeg">>, <<"RightUpLegRoll", "RightUpLeg">>,
      <<"LeftArmRoll", "LeftArm">>, <<"RightArmRoll", "RightArm">>,
      <<"LeftForeArmRoll", "LeftForeArm">>, <<"RightForeArmRoll", "RightForeArm">>>>

\* the joint names handed to suggest_map in this model
SrcNames ==
    {"Hips", "LeftShoulder", "LeftFoot", "LeftToe", "LeftToeBase", "RightToeBase",
     "LeftArmRoll", "LClavicle", "LeftClavicle", "RightClavicle",
     "LeftToeClavicle", "LeftToe_01", "LeftToe_02", "Rtoes", "Spine3",
     "RightShoulder", "RightToe"}

is_left(name) == \E j \in 1..Len(LEFT_PREFIXES) : StartsWith(name, LEFT_PREFIXES[j])
is_right(name) == \E j \in 1..Len(RIGHT_PREFIXES) : StartsWith(name, RIGHT_PREFIXES[j])

\* any(h in n for h in TOE_HINTS)
HasToeHint(n) == \E j \in 1..Len(TOE_HINTS) : Contains(n, TOE_HINTS[j])

\* what the passes ask of each name of the model, computed once per name
NameFacts ==
    [n \in SrcNames |->
        [canonical |-> InList(n, CANONICAL_GMR_SET),
         clavicle |-> Contains(Lower(n), "clavicle"),
         left |-> is_left(n), right |-> is_right(n),
         toe |-> HasToeHint(n)]]

\* the identity loop leaving after its first entry
IdentityRule_Break(m, n) ==
    IF NameFacts[n].canonical /\ m = <<>> THEN DictSet(m, n, n) ELSE m

\* lines 140-141: the body of the identity loop
IdentityRule(m, n) == IF NameFacts[n].canonical THEN DictSet(m, n, n) ELSE m

RECURSIVE IdentityLoop(_, _)
IdentityLoop(m, ord) ==
    IF ord = <<>> THEN m
    ELSE IdentityLoop(IdentityRule(m, Head(ord)), Tail(ord))

\* the variant entry written the wrong way round
VariantRule_Swapped(m, v, ord) ==
    IF InList(v[1], ord) /\ InList(v[2], CANONICAL_GMR_SET)
    THEN DictSet(m, v[2], v[1]) ELSE m

\* the variant entry written without asking whether the variant is present
VariantRule_NoPresence(m, v, ord) ==
    IF InList(v[2], CANONICAL_GMR_SET)
    THEN DictSet(m, v[1], v[2]) ELSE m

\* lines 155-156: the body of the variants loop
VariantRule(m, v, ord) ==
    IF InList(v[1], ord) /\ InList(v[2], CANONICAL_GMR_SET)
    THEN DictSet(m, v[1], v[2]) ELSE m

RECURSIVE VariantLoop(_, _, _)
VariantLoop(m, vs, ord) ==
    IF vs = <<>> THEN m
    ELSE VariantLoop(VariantRule(m, Head(vs), ord), Tail(vs), ord)

\* the clavicle rule without its "not in name_map" guards
ClavicleRule_NoGuard(m, n) ==
    LET m1 == IF NameFacts[n].clavicle /\ NameFacts[n].left
              THEN DictSet(m, n, "LeftShoulder") ELSE m
    IN  IF NameFacts[n].clavicle /\ NameFacts[n].right
        THEN DictSet(m1, n, "RightShoulder") ELSE m1

\* lines 160-164: the body of the clavicle loop, two ifs in sequence
ClavicleRule(m, n) ==
    LET m1 == IF NameFacts[n].clavicle /\ ~DictHas(m, "LeftShoulder") /\ NameFacts[n].left
              THEN DictSet(m, n, "LeftShoulder") ELSE m
    IN  IF NameFacts[n].clavicle /\ ~DictHas(m1, "RightShoulder") /\ NameFacts[n].right
        THEN DictSet(m1, n, "RightShoulder") ELSE m1

RECURSIVE ClavicleLoop(_, _)
ClavicleLoop(m, ord) ==
    IF ord = <<>> THEN m
    ELSE ClavicleLoop(ClavicleRule(m, Head(ord)), Tail(ord))

\* the toe candidates picked without the laterality test
RECURSIVE Filter_AnySide(_, _)
Filter_AnySide(ord, side) ==
    IF ord = <<>> THEN <<>>
    ELSE (IF NameFacts[Head(ord)].toe THEN <<Head(ord)>> ELSE <<>>)
         \o Filter_AnySide(Tail(ord), side)

\* lines 167-168: the list comprehensions
RECURSIVE Filter(_, _)
Filter(ord, side) ==
    IF ord = <<>> THEN <<>>
    ELSE (IF NameFacts[Head(ord)][side] /\ NameFacts[Head(ord)].toe
          THEN <<Head(ord)>> ELSE <<>>) \o Filter(Tail(ord), side)

toes_left(ord) == Filter(ord, "left")
toes_right(ord) == Filter(ord, "right")

\* the toe pick taking the first candidate instead of the last
ToeRule_First(m, toes, target) ==
    IF toes # <<>> /\ ~DictHas(m, target)
    THEN DictSet(m, toes[1], target) ELSE m

\* lines 169-172
ToeRule(m, toes, target) ==
    IF toes # <<>> /\ ~DictHas(m, target)
    THEN DictSet(m, toes[Len(toes)], target) ELSE m

MapVars == <<lines, in_hier, in_motion, header_lines, motion_lines, fps,
             children, offsets, order, stack, current, root_name,
             frames, printed>>

\* lines 137-141
IdentityPass ==
    /\ pc = "identity"
    /\ name_map' = IdentityLoop(<<>>, order)
    /\ pc' = "variants"
    /\ UNCHANGED <<MapVars, report>>

\* lines 143-156
VariantPass ==
    /\ pc = "variants"
    /\ name_map' = VariantLoop(name_map, variants, order)
    /\ pc' = "clavicle"
    /\ UNCHANGED <<MapVars, report>>

\* lines 158-164
ClaviclePass ==
    /\ pc = "clavicle"
    /\ name_map' = ClavicleLoop(name_map, order)
    /\ pc' = "toe"
    /\ UNCHANGED <<MapVars, report>>

\* lines 166-174: the toe pick, and suggest_map returns
ToePass ==
    /\ pc = "toe"
    /\ name_map' = ToeRule(ToeRule(name_map, toes_left(order), "LeftToe"),
                           toes_right(order), "RightToe")
    /\ pc' = "mapped"
    /\ UNCHANGED <<MapVars, report>>

\* lines 211-212: next((k for k, v in m.items() if v == target), None)
FirstSource(m, target) ==
    LET hits == {j \in 1..Len(m) : m[j][2] = target}
    IN  IF hits = {} THEN None
        ELSE m[CHOOSE j \in hits : \A h \in hits : j <= h][1]

\* lines 214-215: {ltoe or 'NOT FOUND (fallback to ... orientation)'}
SourceText(src, foot) ==
    IF src # None /\ src # "" THEN src
    ELSE "NOT FOUND (fallback to " \o foot \o " orientation)"

\* lines 210-215
ReportToes ==
    /\ pc = "mapped"
    /\ report' = report \o
          <<"LeftToe  source: " \o SourceText(FirstSource(name_map, "LeftToe"), "LeftFoot"),
            "RightToe source: " \o SourceText(FirstSource(name_map, "RightToe"), "RightFoot")>>
    /\ pc' = "toes_reported"
    /\ UNCHANGED <<MapVars, name_map>>

InitBase ==
    /\ lines = <<>>
    /\ in_hier = FALSE /\ in_motion = FALSE
    /\ header_lines = <<>> /\ motion_lines = <<>>
    /\ fps = NoFps
    /\ children = <<>> /\ offsets = <<>> /\ order = <<>> /\ stack = <<>>
    /\ current = None /\ root_name = None
    /\ frames = <<>> /\ printed = <<>>
    /\ name_map = <<>>
    /\ report = <<>>

InitHeader == pc = "read" /\ InitBase

InitParse == pc = "parse" /\ InitBase

\* suggest_map is entered with the order list of parse_hierarchy
Orders == UNION {[1..n -> SrcNames] : n \in 0..MaxOrder}

InitMap ==
    /\ pc = "identity"
    /\ order \in Orders
    /\ lines = <<>>
    /\ in_hier = FALSE /\ in_motion = FALSE
    /\ header_lines = <<>> /\ motion_lines = <<>>
    /\ fps = NoFps
    /\ children = <<>> /\ offsets = <<>> /\ stack = <<>>
    /\ current = None /\ root_name = None
    /\ frames = <<>> /\ printed = <<>>
    /\ name_map = <<>>
    /\ report = <<>>

NextHeader ==
    \/ \E ln \in FileLineSet : ReadLine(ln)
    \/ ReadEnd
    \/ ScanFps
    \/ ReportFps

SpecHeader == InitHeader /\ [][NextHeader]_vars

NextParse ==
    \/ \E ln \in HeaderLineSet : ParseLine(ln)
    \/ ParseReturn
    \/ MainPrintTree
    \/ PrintTreeCall
    \/ PrintTreeOverflow
    \/ PrintTreeReturn
    \/ ReportJoints

SpecParse == InitParse /\ [][NextParse]_vars

NextMap ==
    \/ IdentityPass
    \/ VariantPass
    \/ ClaviclePass
    \/ ToePass
    \/ ReportToes

SpecMap == InitMap /\ [][NextMap]_vars

(***************************************************************************)
(* Properties.                                                             *)
(***************************************************************************)
\* the ROOT and JOINT lines of a header
DeclLines(ls) == {j \in 1..Len(ls) : Matches[ls[j]].joint # ""}

\* depth-first pre-order of the tree (root, ch), children in list order;
\* depth cuts the walk of a tree that has a cycle
RECURSIVE PreOrder(_, _, _)
RECURSIVE PreOrderAll(_, _, _)
PreOrder(n, ch, depth) ==
    IF depth = 0 THEN <<>>
    ELSE <<n>> \o PreOrderAll(IF DictHas(ch, n) THEN DictGet(ch, n) ELSE <<>>, ch, depth - 1)
PreOrderAll(ns, ch, depth) ==
    IF ns = <<>> THEN <<>>
    ELSE PreOrder(Head(ns), ch, depth) \o PreOrderAll(Tail(ns), ch, depth)

\* the places of the children lists that hold joint n
EdgesTo(n) ==
    {e \in {<<j, i>> : j \in 1..Len(children), i \in 1..MaxWFLines} :
        e[2] <= Len(children[e[1]][2]) /\ children[e[1]][2][e[2]] = n}

\* the joints reached from n by one or more parent links
RECURSIVE Ancestors(_, _)
Ancestors(n, depth) ==
    LET ps == {children[e[1]][1] : e \in EdgesTo(n)}
    IN  IF depth = 0 THEN {}
        ELSE ps \cup UNION {Ancestors(p, depth - 1) : p \in ps}

\* C1: for a well-formed hierarchy block, order has one entry per ROOT and
\* JOINT line and is the depth-first pre-order of the tree (root_name,
\* children) that parse_hierarchy returns.
C1_OrderIsPreOrder ==
    (pc = "parsed" /\ WellFormed(header_lines)) =>
        /\ Len(order) = Cardinality(DeclLines(header_lines))
        /\ order = PreOrder(root_name, children, Len(order) + 1)

\* C2: for a well-formed hierarchy block the result is one rooted tree:
\* root_name is the ROOT declaration's name, every other joint is in exactly
\* one place of one children list, and no joint is its own ancestor.
C2_OneRootedTree ==
    (pc = "parsed" /\ WellFormed(header_lines)) =>
        /\ root_name = WFState(header_lines).seen[1]
        /\ \A j \in 2..Len(order) : Cardinality(EdgesTo(order[j])) = 1
        /\ \A j \in 1..Len(order) : order[j] \notin Ancestors(order[j], Len(order))

\* the joints whose blocks are open, or declared and about to open, in a
\* well-formed prefix
OpenJoints(w) ==
    LET RECURSIVE Named(_)
        Named(op) == IF op = <<>> THEN <<>>
                     ELSE (IF Head(op) = "" THEN <<>> ELSE <<Head(op)>>) \o Named(Tail(op))
    IN  Named(w.open) \o (IF w.pend \in {None, ""} THEN <<>> ELSE <<w.pend>>)

\* C3: an End Site block does not desynchronize the stack: while the header
\* read so far is a prefix of a well-formed block, the stack holds exactly
\* the joints whose blocks are open, current is its top, every joint is a
\* child of its enclosing joint, and the stack is empty only before ROOT
\* and after the ROOT's closing brace.
C3_EndSiteKeepsStack ==
    (pc = "parse" /\ WFPrefix(header_lines)) =>
        LET w == WFState(header_lines)
        IN  /\ stack = OpenJoints(w)
            /\ current = IF stack = <<>> THEN None ELSE stack[Len(stack)]
            /\ \A j \in 1..Len(w.par) :
                  w.par[j][2] # None => InList(w.par[j][1], ChildrenOf(w.par[j][2]))
            /\ stack = <<>> => (header_lines = <<>> \/ w.closed)

\* C4: the run terminates for every input, duplicate joint names included:
\* print_tree's recursion returns and never runs away.
C4_PrintTreeReturns == pc # "RecursionError"

\* C5: no pass of suggest_map changes the target of a source key that an
\* earlier pass has set.
C5_EarlierPassKept ==
    [][\A j \in 1..Len(name_map) :
          /\ DictHas(name_map', name_map[j][1])
          /\ DictGet(name_map', name_map[j][1]) = name_map[j][2]]_vars

\* the white-space separated fields of a line
RECURSIVE Fields(_)
Fields(s) ==
    LET t == Strip(s)
        n == IF FindChar(t, {" "}) = 0 THEN Len(t) ELSE FindChar(t, {" "}) - 1
    IN  IF t = "" THEN <<>> ELSE <<SubSeq(t, 1, n)>> \o Fields(From(t, n + 1))

\* a line that begins with OFFSET and does not have three valid numbers
MalformedOffset(ln) ==
    LET f == Fields(ln)
    IN  /\ f # <<>> /\ f[1] = "OFFSET"
        /\ ~(Len(f) = 4 /\ \A j \in 2..4 : FloatValid(f[j]))

\* C6: a malformed OFFSET line records nothing, changes neither offsets,
\* stack, children nor order, and does not abort the parse.
C6_MalformedOffsetIgnored ==
    [][(pc = "parse" /\ Len(header_lines') = Len(header_lines) + 1
          /\ MalformedOffset(header_lines'[Len(header_lines')]))
       => (pc' = "parse" /\ UNCHANGED <<offsets, stack, children, order>>)]_vars

\* C7: a header without a ROOT declaration gives an empty result: root_name
\* absent, no joints.
C7_NoRootIsEmpty ==
    (pc = "parsed" /\ \A j \in DeclLines(header_lines) : ~IsRoot[header_lines[j]])
        => (root_name = None /\ order = <<>>)

\* C8: the frame rate read_bvh_header returns is absent or a positive
\* integer.
C8_FpsAbsentOrPositive ==
    pc \in {"header_returned", "fps_reported"} => (fps = NoFps \/ fps[1] >= 1)

\* no motion line carries a Frame Time value that is a positive number
NoPositiveFrameTime ==
    \A j \in 1..Len(motion_lines) :
        LET m == FrameTimeMatch(motion_lines[j])
        IN  ~(m # "" /\ FloatValid(m) /\ FloatValue(m)[1] > 0)

\* C9: when no motion line has a Frame Time value that is a positive
\* duration, read_bvh_header does not raise and returns fps absent, and the
\* report prints the frame rate as unknown.
C9_NoFrameTimeIsUnknown ==
    (pc \notin {"read", "scan"} /\ NoPositiveFrameTime) =>
        /\ pc # "ValueError"
        /\ fps = NoFps
        /\ pc = "fps_reported" => report = <<"FPS   : unknown">>

\* C10: every source name that is a canonical name is mapped to itself,
\* after the identity pass and after every later pass.
C10_IdentityKept ==
    pc # "identity" =>
        \A j \in 1..Len(order) :
            NameFacts[order[j]].canonical =>
                /\ DictHas(name_map, order[j])
                /\ DictGet(name_map, order[j]) = order[j]

\* suggest_map has returned a mapping that holds Hips -> Hips next to an
\* entry made by a later pass
C10_Witness ==
    /\ pc = "mapped"
    /\ InList("Hips", order) /\ DictHas(name_map, "Hips")
    /\ \E j \in 1..Len(name_map) : name_map[j][1] # name_map[j][2]

\* the last name of order that is on a side ("left", "right") and contains a
\* toe hint, None when there is none
LastToe(side) ==
    LET idx == {j \in 1..Len(order) : NameFacts[order[j]][side] /\ NameFacts[order[j]].toe}
    IN  IF idx = {} THEN None
        ELSE order[CHOOSE j \in idx : \A h \in idx : h <= j]

MapsTo(src, target) == DictHas(name_map, src) /\ DictGet(name_map, src) = target

\* C11 as stated: whenever a left-lateral name contains a toe hint, the last
\* such name of order is mapped to LeftToe in the returned mapping; the same
\* for right-lateral names and RightToe.
C11_LastToeIsSource ==
    pc \in {"mapped", "toes_reported"} =>
        /\ LastToe("left") # None => MapsTo(LastToe("left"), "LeftToe")
        /\ LastToe("right") # None => MapsTo(LastToe("right"), "RightToe")

\* C11, amended: whenever a left-lateral name contains a toe hint and the
\* name LeftToe itself is not in order, the last such name of order is mapped
\* to LeftToe in the returned mapping; the same for right-lateral names,
\* RightToe and the name RightToe.
C11_LastToeIsSourceUnlessNamed ==
    pc \in {"mapped", "toes_reported"} =>
        /\ (LastToe("left") # None /\ ~InList("LeftToe", order))
              => MapsTo(LastToe("left"), "LeftToe")
        /\ (LastToe("right") # None /\ ~InList("RightToe", order))
              => MapsTo(LastToe("right"), "RightToe")

\* suggest_map has returned for [LeftFoot, LeftToe_01, LeftToe_02] with
\* LeftToe_02 as the LeftToe source
C11_Witness ==
    /\ pc = "mapped"
    /\ order = <<"LeftFoot", "LeftToe_01", "LeftToe_02">>
    /\ MapsTo("LeftToe_02", "LeftToe")
    /\ ~DictHas(name_map, "LeftToe_01")

\* C12: when order holds LeftToeBase and not LeftToe, LeftToeBase is mapped
\* to LeftToe from the variant pass on, and the clavicle and toe passes leave
\* that entry alone; the same for RightToeBase and RightToe.
C12_ToeBaseKept ==
    pc \in {"clavicle", "toe", "mapped", "toes_reported"} =>
        /\ (InList("LeftToeBase", order) /\ ~InList("LeftToe", order))
              => MapsTo("LeftToeBase", "LeftToe")
        /\ (InList("RightToeBase", order) /\ ~InList("RightToe", order))
              => MapsTo("RightToeBase", "RightToe")

\* suggest_map has returned for an order with LeftToeBase, a clavicle and a
\* later toe name, and LeftToeBase is still mapped to LeftToe
C12_Witness ==
    /\ pc = "mapped"
    /\ order = <<"LeftToeBase", "LClavicle", "LeftToe_01">>
    /\ MapsTo("LeftToeBase", "LeftToe")
    /\ MapsTo("LClavicle", "LeftShoulder")

\* C13: when no left-lateral name contains a toe hint, the returned mapping
\* has LeftToe neither as a key nor as a target, and the report's LeftToe
\* line states the fallback; the same for right-lateral names and RightToe.
C13_AbsentToeFallback ==
    pc \in {"mapped", "toes_reported"} =>
        /\ LastToe("left") = None =>
              /\ \A j \in 1..Len(name_map) :
                    name_map[j][1] # "LeftToe" /\ name_map[j][2] # "LeftToe"
              /\ pc = "toes_reported" =>
                    report[1] = "LeftToe  source: NOT FOUND (fallback to LeftFoot orientation)"
        /\ LastToe("right") = None =>
              /\ \A j \in 1..Len(name_map) :
                    name_map[j][1] # "RightToe" /\ name_map[j][2] # "RightToe"
              /\ pc = "toes_reported" =>
                    report[2] = "RightToe source: NOT FOUND (fallback to RightFoot orientation)"

\* the report is printed for an order that has a right toe name and no left
\* one: a RightToe source and the LeftToe fallback
C13_Witness ==
    /\ pc = "toes_reported"
    /\ LastToe("left") = None /\ LastToe("right") = "Rtoes"
    /\ InList("LeftFoot", order)
    /\ report = <<"LeftToe  source: NOT FOUND (fallback to LeftFoot orientation)",
                  "RightToe source: Rtoes">>

\* C15: when order holds the source name LeftShoulder, no other name is
\* mapped to LeftShoulder by the clavicle pass or later; the same for
\* RightShoulder.
C15_ClavicleYieldsToIdentity ==
    /\ InList("LeftShoulder", order) =>
          \A j \in 1..Len(name_map) :
              name_map[j][2] = "LeftShoulder" => name_map[j][1] = "LeftShoulder"
    /\ InList("RightShoulder", order) =>
          \A j \in 1..Len(name_map) :
              name_map[j][2] = "RightShoulder" => name_map[j][1] = "RightShoulder"

\* suggest_map has returned for an order with LeftShoulder and a left
\* clavicle name, and the clavicle name is not mapped
C15_Witness ==
    /\ pc = "mapped"
    /\ InList("LeftShoulder", order) /\ InList("LClavicle", order)
    /\ MapsTo("LeftShoulder", "LeftShoulder")
    /\ ~DictHas(name_map, "LClavicle")

\* C18: the returned mapping gives each canonical target to at most one
\* source name.
C18_OneSourcePerTarget ==
    pc \in {"mapped", "toes_reported"} =>
        \A i, j \in 1..Len(name_map) : name_map[i][2] = name_map[j][2] => i = j

\* a name that some rule of suggest_map can classify
Classified(n) ==
    \/ NameFacts[n].canonical
    \/ \E k \in 1..Len(variants) : variants[k][1] = n
    \/ (NameFacts[n].clavicle \/ NameFacts[n].toe) /\ (NameFacts[n].left \/ NameFacts[n].right)

\* C19: after every pass every key of the mapping is a name of order and
\* every value a canonical name, and a name no rule classifies is not a key.
C19_KeysAndTargets ==
    /\ \A j \in 1..Len(name_map) :
          /\ InList(name_map[j][1], order)
          /\ InList(name_map[j][2], CANONICAL_GMR_SET)
    /\ \A j \in 1..Len(order) : ~Classified(order[j]) => ~DictHas(name_map, order[j])

\* suggest_map has returned a mapping for an order with Spine3, which no
\* rule classifies, next to names that are mapped
C19_Witness ==
    /\ pc = "mapped"
    /\ InList("Spine3", order) /\ ~DictHas(name_map, "Spine3")
    /\ Len(name_map) >= 2

\* the HIERARCHY and MOTION marker lines read so far, and the first of each
HierAt == {j \in 1..Len(lines) : StartsWith(Strip(lines[j]), "HIERARCHY")}
MotionAt == {j \in 1..Len(lines) : StartsWith(Strip(lines[j]), "MOTION")}
First(S) == IF S = {} THEN 0 ELSE CHOOSE j \in S : \A h \in S : j <= h

\* the lines read so far whose position is in S, in file order
RECURSIVE PickLines(_, _)
PickLines(S, n) ==
    IF n = 0 THEN <<>>
    ELSE PickLines(S, n - 1) \o (IF n \in S THEN <<lines[n]>> ELSE <<>>)

\* positions after the first HIERARCHY marker and before the first MOTION
\* marker, and positions from the first MOTION marker on
BetweenMarkers ==
    {j \in 1..Len(lines) :
        /\ First(HierAt) # 0 /\ j > First(HierAt)
        /\ First(MotionAt) = 0 \/ j < First(MotionAt)}
FromMotion == {j \in 1..Len(lines) : First(MotionAt) # 0 /\ j >= First(MotionAt)}

\* C14 as stated: the motion block, once opened, is never left; motion_lines
\* holds the first MOTION line and every later line that is routed (all but
\* HIERARCHY lines), and header_lines holds exactly the lines after the first
\* HIERARCHY marker and before the first MOTION marker.
C14_RoutingByMarkers ==
    /\ in_motion = (MotionAt # {})
    /\ motion_lines = PickLines(FromMotion \ HierAt, Len(lines))
    /\ header_lines = PickLines(BetweenMarkers, Len(lines))

\* C14, amended: as stated, except that header_lines holds the lines after
\* the first HIERARCHY marker and before the first MOTION marker that do not
\* themselves start with HIERARCHY; a repeated HIERARCHY line is in neither
\* buffer.
C14_RoutingSkipsMarkers ==
    /\ in_motion = (MotionAt # {})
    /\ motion_lines = PickLines(FromMotion \ HierAt, Len(lines))
    /\ header_lines = PickLines(BetweenMarkers \ HierAt, Len(lines))

\* a header line, then MOTION, then a HIERARCHY line have been read
C14_Witness ==
    /\ lines = <<"HIERARCHY", "ROOT Hips", "MOTION", "HIERARCHY">>
    /\ header_lines = <<"ROOT Hips">>
    /\ motion_lines = <<"MOTION">>
    /\ in_motion /\ in_hier

\* current is the top of the stack, None when the stack is empty
CurrentIsTop == current = (IF stack = <<>> THEN None ELSE stack[Len(stack)])

\* what the step that processes one more header line does with a "}" on an
\* empty stack and with a ROOT or JOINT line
LineStepOk ==
    LET ln == header_lines'[Len(header_lines')]
        name == Matches[ln].joint
        top == stack[Len(stack)]
        kids == IF DictHas(children, top) THEN DictGet(children, top) ELSE <<>>
    IN  /\ (name = "" /\ ~Matches[ln].end /\ ~Matches[ln].open /\ Matches[ln].close
              /\ stack = <<>>)
           => (pc' = "parse" /\ UNCHANGED <<stack, current, children, order,
                                            offsets, root_name>>)
        /\ (name # "" /\ stack = <<>>)
           => (pc' = "parse" /\ root_name' = name /\ children' = children
                 /\ stack' = <<name>>)
        /\ (name # "" /\ stack # <<>>)
           => /\ pc' = "parse" /\ root_name' = root_name
              /\ stack' = Append(stack, name)
              /\ DictHas(children', top)
              /\ DictGet(children', top) = Append(kids, name)
              /\ \A j \in 1..Len(children') :
                    children'[j][1] # top =>
                        /\ DictHas(children, children'[j][1])
                        /\ DictGet(children, children'[j][1]) = children'[j][2]

\* C16: for any sequence of header lines, after every line current is the
\* top of the stack (None when it is empty); a "}" on an empty stack changes
\* nothing and raises nothing; a ROOT or JOINT becomes a child of exactly the
\* top of the stack, or the root when the stack is empty.
C16_CurrentIsTop ==
    /\ CurrentIsTop
    /\ [][/\ CurrentIsTop'
          /\ Len(header_lines') = Len(header_lines) + 1 => LineStepOk]_vars

\* a "}" met an empty stack, then ROOT Hips and JOINT Spine were read
C16_Witness ==
    /\ pc = "parse"
    /\ header_lines = <<"}", "ROOT Hips", "JOINT Spine">>
    /\ stack = <<"Hips", "Spine">> /\ current = "Spine"
    /\ root_name = "Hips"
    /\ children = <<<<"Hips", <<"Spine">>>>>>

\* the OFFSET lines of joint n's own block in a well-formed header: the
\* positions of the OFFSET lines whose innermost open block is n's
OwnOffsetAt(ls, n) ==
    {j \in 1..Len(ls) :
        /\ IsOffset[ls[j]]
        /\ LET w == WFState(SubSeq(ls, 1, j - 1))
           IN  w.pend = None /\ w.open # <<>> /\ w.open[Len(w.open)] = n}

\* C17: for a well-formed hierarchy block the offset returned for each joint
\* is that of the (last) OFFSET line of the joint's own block, a joint
\* without one has no offset, and the OFFSET line inside an End Site block is
\* recorded against no joint.
C17_OwnOffsets ==
    (pc = "parsed" /\ WellFormed(header_lines)) =>
        \A k \in 1..Len(order) :
            LET js == OwnOffsetAt(header_lines, order[k])
                last == CHOOSE j \in js : \A h \in js : h <= j
            IN  IF js = {} THEN ~DictHas(offsets, order[k])
                ELSE /\ DictHas(offsets, order[k])
                     /\ DictGet(offsets, order[k]) =
                           [i \in 1..3 |-> FloatValue(Matches[header_lines[last]].offset[i])]
====
